---------------------------- MODULE Spec2Model ----------------------------
(***************************************************************************)
(* Model of pysleep's hypnogram report generator                           *)
(* (src/src/pysleep/hypnogram_report.py) and of its sleep statistics       *)
(* (src/src/pysleep/stat.py).                                              *)
(*                                                                         *)
(* Python strings are modelled as sequences of one-character strings, so   *)
(* that formatting and parsing are computed character by character.        *)
(* A datetime is a record [ord, sec]: the proleptic Gregorian ordinal of   *)
(* its date (date.toordinal) and the second of the day; microseconds are   *)
(* always 0 on the paths modelled.  Start times close enough to            *)
(* datetime.max for start + recording length + 1h to leave the range of    *)
(* datetime are outside the inputs drawn here.                             *)
(***************************************************************************)
EXTENDS Integers, Sequences, FiniteSets, TLC

VARIABLES
    hypnogram_data,   \* argument: the sequence of stage codes
    start_time,       \* argument: text
    end_time,         \* argument: text
    compact,          \* argument: BOOLEAN
    events,           \* local of generate_hypnogram_report
    summary,          \* local of generate_hypnogram_report
    report,           \* local of generate_hypnogram_report
    start_dt,         \* local of generate_hypnogram_report
    end_dt,           \* local of generate_hypnogram_report
    result,           \* the value returned
    pc,               \* position in generate_hypnogram_report
    seconds,          \* argument of a direct call of format_duration
    formatted,        \* its result
    dt1,              \* argument of a direct call of subtract_relative_time
    dt2,              \* argument of a direct call of subtract_relative_time
    time_delta,       \* its result
    self_stat,        \* left operand of SleepStat.__sub__
    other_stat,       \* right operand of SleepStat.__sub__
    stat_delta        \* the SleepStatDelta it returns

\* the variables of stat.py
stat_vars == <<dt1, dt2, time_delta, self_stat, other_stat, stat_delta>>

\* the variables of hypnogram_report.py
report_vars == <<hypnogram_data, start_time, end_time, compact, events, summary,
                 report, start_dt, end_dt, result, seconds, formatted>>

vars == <<hypnogram_data, start_time, end_time, compact, events, summary,
          report, start_dt, end_dt, result, pc, seconds, formatted,
          dt1, dt2, time_delta, self_stat, other_stat, stat_delta>>

\* Python's None, and an exception raised in place of a value
None == [none |-> TRUE]

Raised(name) == [error |-> name]

-----------------------------------------------------------------------------
(* Bounds of the model *)

\* raw hypnograms of every length up to MaxLen over Codes are drawn
MaxLen == 3
\* run-built hypnograms have up to MaxRuns runs
MaxRuns == 2
\* direct calls of format_duration take 0..MaxSeconds
MaxSeconds == 7400
\* datetimes handed to subtract_relative_time fall on MaxDayOffset + 1 dates
MaxDayOffset == 1
\* the varied optional field of a SleepStat takes None or 0..MaxStatValue
MaxStatValue == 2

-----------------------------------------------------------------------------
(* Text helpers: str(int), zero padding, joining *)

DigitChars == <<"0", "1", "2", "3", "4", "5", "6", "7", "8", "9">>

IsDigit(c) == \E i \in 1..10 : DigitChars[i] = c

DigitVal(c) == (CHOOSE i \in 1..10 : DigitChars[i] = c) - 1

RECURSIVE NatToStr(_)
NatToStr(n) ==
    IF n < 10 THEN <<DigitChars[n + 1]>>
    ELSE NatToStr(n \div 10) \o <<DigitChars[(n % 10) + 1]>>

\* str(n) / f"{n}" for an int
IntToStr(n) == IF n < 0 THEN <<"-">> \o NatToStr(0 - n) ELSE NatToStr(n)

\* "%02d"
Pad2(n) == IF n < 10 THEN <<"0">> \o NatToStr(n) ELSE NatToStr(n)

RECURSIVE Join(_, _)
\* sep.join(parts)
Join(sep, parts) ==
    IF parts = <<>> THEN <<>>
    ELSE IF Len(parts) = 1 THEN parts[1]
    ELSE parts[1] \o sep \o Join(sep, Tail(parts))

-----------------------------------------------------------------------------
(* Constants of the program *)

EPOCH_DURATION == 30

WAKE == 0
LIGHT == 1
DEEP == 2
REM == 3

\* STAGE_MAP as the ordered list of its items
STAGE_MAP ==
    << <<WAKE, <<"W", "a", "k", "e">> >>,
       <<LIGHT, <<"L", "i", "g", "h", "t">> >>,
       <<DEEP, <<"D", "e", "e", "p">> >>,
       <<REM, <<"R", "E", "M">> >> >>

UnknownName(stage) ==
    <<"U", "n", "k", "n", "o", "w", "n", "(">> \o IntToStr(stage) \o <<")">>

\* a display name that drops the code of an unknown stage
StageNameMerged(stage) ==
    IF \E i \in 1..Len(STAGE_MAP) : STAGE_MAP[i][1] = stage
    THEN STAGE_MAP[CHOOSE i \in 1..Len(STAGE_MAP) : STAGE_MAP[i][1] = stage][2]
    ELSE <<"U", "n", "k", "n", "o", "w", "n">>

\* STAGE_MAP.get(stage, f"Unknown({stage})")
StageName(stage) ==
    IF \E i \in 1..Len(STAGE_MAP) : STAGE_MAP[i][1] = stage
    THEN STAGE_MAP[CHOOSE i \in 1..Len(STAGE_MAP) : STAGE_MAP[i][1] = stage][2]
    ELSE UnknownName(stage)

-----------------------------------------------------------------------------
(* format_duration *)

\* always appends the seconds part
format_duration_all_secs(secs_in) ==
    LET hours == secs_in \div 3600
        minutes == (secs_in % 3600) \div 60
        secs == secs_in % 60
        parts == (IF hours > 0 THEN <<NatToStr(hours) \o <<"h">> >> ELSE <<>>)
                 \o (IF minutes > 0 THEN <<NatToStr(minutes) \o <<"m">> >> ELSE <<>>)
                 \o <<NatToStr(secs) \o <<"s">> >>
    IN  Join(<<" ">>, parts)

format_duration(secs_in) ==
    IF secs_in = 0 THEN <<"0", "s">>
    ELSE
    LET hours == secs_in \div 3600
        minutes == (secs_in % 3600) \div 60
        secs == secs_in % 60
        parts == (IF hours > 0 THEN <<NatToStr(hours) \o <<"h">> >> ELSE <<>>)
                 \o (IF minutes > 0 THEN <<NatToStr(minutes) \o <<"m">> >> ELSE <<>>)
                 \o (IF secs > 0 \/ (hours = 0 /\ minutes = 0)
                     THEN <<NatToStr(secs) \o <<"s">> >> ELSE <<>>)
    IN  Join(<<" ">>, parts)

-----------------------------------------------------------------------------
(* extract_events_from_hypnogram *)

\* the least element of a non-empty set of integers
Min(S) == CHOOSE x \in S : \A y \in S : x <= y

\* len(list(group)) for the group of groupby that starts at index i: the run
\* of s[i] ends at the first index whose successor differs or is missing
RunLength(s, i) ==
    Min({j \in i..Len(s) : j = Len(s) \/ s[j + 1] # s[i]}) - i + 1

RECURSIVE ExtractFrom(_, _)
\* the loop of lines 39-51 from 1-based index i (start_epoch = i - 1)
ExtractFrom(s, i) ==
    IF i > Len(s) THEN <<>>
    ELSE LET duration_epochs == RunLength(s, i)
             duration_seconds == duration_epochs * EPOCH_DURATION
         IN  << [start_epoch |-> i - 1,
                 stage |-> StageName(s[i]),
                 duration |-> format_duration(duration_seconds)] >>
             \o ExtractFrom(s, i + duration_epochs)

RECURSIVE ExtractFixedFrom(_, _)
\* a chunking extractor that cuts a run after two epochs
ExtractFixedFrom(s, i) ==
    IF i > Len(s) THEN <<>>
    ELSE LET r == RunLength(s, i)
             duration_epochs == IF r > 2 THEN 2 ELSE r
         IN  << [start_epoch |-> i - 1,
                 stage |-> StageName(s[i]),
                 duration |-> format_duration(duration_epochs * EPOCH_DURATION)] >>
             \o ExtractFixedFrom(s, i + duration_epochs)

extract_events_cut(s) == ExtractFixedFrom(s, 1)

\* numbers the events instead of accumulating their epochs
extract_events_event_index(s) ==
    LET evs == IF s = <<>> THEN <<>> ELSE ExtractFrom(s, 1)
    IN  [i \in 1..Len(evs) |-> [evs[i] EXCEPT !.start_epoch = i - 1]]

extract_events_from_hypnogram(s) ==
    IF s = <<>> THEN <<>> ELSE ExtractFrom(s, 1)

-----------------------------------------------------------------------------
(* calculate_stage_summary *)

RECURSIVE InOrder(_)
\* the elements of a finite set of integers in increasing order
InOrder(S) == IF S = {} THEN <<>> ELSE <<Min(S)>> \o InOrder(S \ {Min(S)})

\* stage_counts after the loop of lines 73-75, given the display name of
\* every epoch, as the ordered list of the dict's items: one key per name, in
\* the order the names first occur, each with the number of epochs of that name
StageCountsOf(names) ==
    LET first == InOrder({Min({i \in 1..Len(names) : names[i] = k}) :
                            k \in {names[i] : i \in 1..Len(names)}})
    IN  [n \in 1..Len(first) |->
            <<names[first[n]],
              Cardinality({i \in 1..Len(names) : names[i] = names[first[n]]})>>]

stage_counts_merged(s) == StageCountsOf([i \in 1..Len(s) |-> StageNameMerged(s[i])])

stage_counts(s) == StageCountsOf([i \in 1..Len(s) |-> StageName(s[i])])

\* f"{(count / total_epochs) * 100:.1f}%", computed on the exact quotient
\* (a tie rounds to even, as the format does on an exactly representable value)
FormatPercentage(count, total_epochs) ==
    LET num == count * 1000
        q == num \div total_epochs
        r == num % total_epochs
        tenths == IF 2 * r < total_epochs THEN q
                  ELSE IF 2 * r > total_epochs THEN q + 1
                  ELSE IF q % 2 = 0 THEN q ELSE q + 1
    IN  NatToStr(tenths \div 10) \o <<".">> \o NatToStr(tenths % 10) \o <<"%">>

calculate_stage_summary(s) ==
    IF s = <<>> THEN <<>>
    ELSE LET total_epochs == Len(s)
             counts == stage_counts(s)
         IN  [i \in 1..Len(counts) |->
                <<counts[i][1],
                  [duration |-> format_duration(counts[i][2] * EPOCH_DURATION),
                   percentage |-> FormatPercentage(counts[i][2], total_epochs)]>>]

create_stage_summary(sm) ==
    [i \in 1..Len(sm) |-> <<sm[i][1], <<sm[i][2].duration, sm[i][2].percentage>> >>]

-----------------------------------------------------------------------------
(* datetime *)

IsLeap(y) == y % 4 = 0 /\ (y % 100 # 0 \/ y % 400 = 0)

DaysInMonth(y, m) ==
    IF m = 2 THEN (IF IsLeap(y) THEN 29 ELSE 28)
    ELSE IF m \in {4, 6, 9, 11} THEN 30 ELSE 31

DaysBeforeYear(y) ==
    LET p == y - 1 IN p * 365 + (p \div 4) - (p \div 100) + (p \div 400)

RECURSIVE DaysBeforeMonth(_, _)
DaysBeforeMonth(y, m) ==
    IF m = 1 THEN 0 ELSE DaysBeforeMonth(y, m - 1) + DaysInMonth(y, m - 1)

\* datetime(y, mo, d, h, mi, s)
MakeDatetime(y, mo, d, h, mi, s) ==
    [ord |-> DaysBeforeYear(y) + DaysBeforeMonth(y, mo) + d,
     sec |-> h * 3600 + mi * 60 + s]

\* dt + timedelta(seconds=n), n >= 0
AddSeconds(dt, n) ==
    LET t == dt.sec + n
    IN  [ord |-> dt.ord + (t \div 86400), sec |-> t % 86400]

\* a >= b on datetimes
DtGeq(a, b) == a.ord > b.ord \/ (a.ord = b.ord /\ a.sec >= b.sec)

\* dt.replace(minute=0, second=0, microsecond=0)
FloorHour(dt) == [ord |-> dt.ord, sec |-> (dt.sec \div 3600) * 3600]

\* dt.strftime('%I:%M %p')
Strftime12(dt) ==
    LET h == dt.sec \div 3600
        m == (dt.sec % 3600) \div 60
        h12 == IF h % 12 = 0 THEN 12 ELSE h % 12
    IN  Pad2(h12) \o <<":">> \o Pad2(m) \o <<" ">>
        \o (IF h < 12 THEN <<"A", "M">> ELSE <<"P", "M">>)

-----------------------------------------------------------------------------
(* parse_time: datetime.strptime(time_str, "%Y-%m-%d %H:%M:%S") *)

CharAt(s, i) == IF i >= 1 /\ i <= Len(s) THEN s[i] ELSE "<end>"

IsSpace(c) == c \in {" ", "\t", "\n"}

RECURSIVE DigitRun(_, _)
\* number of digits in a row from index i
DigitRun(s, i) == IF IsDigit(CharAt(s, i)) THEN 1 + DigitRun(s, i + 1) ELSE 0

RECURSIVE SpaceRun(_, _)
DigitsVal(s, i, k) ==
    IF k = 1 THEN DigitVal(s[i])
    ELSE IF k = 2 THEN DigitVal(s[i]) * 10 + DigitVal(s[i + 1])
    ELSE DigitVal(s[i]) * 1000 + DigitVal(s[i + 1]) * 100
         + DigitVal(s[i + 2]) * 10 + DigitVal(s[i + 3])

SpaceRun(s, i) == IF IsSpace(CharAt(s, i)) THEN 1 + SpaceRun(s, i + 1) ELSE 0

\* a one- or two-digit field of the format, ended by a non-digit: the
\* one-digit form is lo1..9, the two-digit form 00..hi2 (01.. when lo1 = 1)
FieldOk(s, i, lo1, hi2) ==
    LET k == DigitRun(s, i)
    IN  \/ k = 1 /\ DigitVal(s[i]) >= lo1
        \/ k = 2 /\ DigitsVal(s, i, 2) >= lo1 /\ DigitsVal(s, i, 2) <= hi2

Strptime(s) ==
    LET mo_at == 6
        mo_len == DigitRun(s, mo_at)
        d_pad == IF CharAt(s, mo_at + mo_len + 1) = " " THEN 1 ELSE 0
        d_at == mo_at + mo_len + 1 + d_pad
        d_len == DigitRun(s, d_at)
        ws == SpaceRun(s, d_at + d_len)
        h_at == d_at + d_len + ws
        h_len == DigitRun(s, h_at)
        mi_at == h_at + h_len + 1
        mi_len == DigitRun(s, mi_at)
        s_at == mi_at + mi_len + 1
        s_len == DigitRun(s, s_at)
        matches ==
            /\ DigitRun(s, 1) = 4
            /\ CharAt(s, 5) = "-"
            /\ FieldOk(s, mo_at, 1, 12)
            /\ CharAt(s, mo_at + mo_len) = "-"
            /\ FieldOk(s, d_at, 1, 31)
            /\ (d_pad = 1 => d_len = 1)
            /\ ws >= 1
            /\ FieldOk(s, h_at, 0, 23)
            /\ CharAt(s, h_at + h_len) = ":"
            /\ FieldOk(s, mi_at, 0, 59)
            /\ CharAt(s, mi_at + mi_len) = ":"
            /\ FieldOk(s, s_at, 0, 61)
            /\ s_at + s_len = Len(s) + 1
        y == DigitsVal(s, 1, 4)
        mo == DigitsVal(s, mo_at, mo_len)
        d == DigitsVal(s, d_at, d_len)
        h == DigitsVal(s, h_at, h_len)
        mi == DigitsVal(s, mi_at, mi_len)
        sc == DigitsVal(s, s_at, s_len)
    IN  IF matches /\ y >= 1 /\ d <= DaysInMonth(y, mo) /\ sc <= 59
        THEN MakeDatetime(y, mo, d, h, mi, sc)
        ELSE Raised("ValueError")

\* parses every text that is not empty as the same fixed datetime
parse_time_lenient(time_str) ==
    IF time_str = <<>> THEN None
    ELSE IF Strptime(time_str) = Raised("ValueError")
         THEN MakeDatetime(2024, 1, 15, 23, 0, 0)
         ELSE Strptime(time_str)

parse_time(time_str) ==
    IF time_str = <<>> THEN None
    ELSE IF Strptime(time_str) = Raised("ValueError") THEN None
         ELSE Strptime(time_str)

format_time_range(a, b) ==
    Strftime12(a) \o <<" ", "-", " ">> \o Strftime12(b)

\* adds the number of epochs as seconds
calculate_end_time_unscaled(dt, num_epochs) == AddSeconds(dt, num_epochs)

calculate_end_time(dt, num_epochs) ==
    LET duration_seconds == num_epochs * EPOCH_DURATION
    IN  AddSeconds(dt, duration_seconds)

-----------------------------------------------------------------------------
(* group_events_by_hour *)

ALL_EVENTS == <<"A", "l", "l", " ", "E", "v", "e", "n", "t", "s">>

\* [[i, event["stage"], event["duration"]] for i, event in enumerate(events, 1)]
EnumeratedStages(evs) ==
    [i \in 1..Len(evs) |-> <<i, evs[i].stage, evs[i].duration>>]

\* {"hour_range": format_time_range(current_hour, next_hour), "stages": []}
NewHourData(current_hour, next_hour) ==
    [hour_range |-> format_time_range(current_hour, next_hour), stages |-> <<>>]

RECURSIVE AdvanceHourKeepEmpty(_, _)
\* appends the bucket being closed even when it has no stage
AdvanceHourKeepEmpty(t, st) ==
    IF DtGeq(t, st.next_hour)
    THEN AdvanceHourKeepEmpty(t,
            [grouped_hours |-> Append(st.grouped_hours, st.hour_data),
             current_hour |-> st.next_hour,
             next_hour |-> AddSeconds(st.next_hour, 3600),
             hour_data |-> NewHourData(st.next_hour, AddSeconds(st.next_hour, 3600))])
    ELSE st

RECURSIVE AdvanceHour(_, _)
\* the while loop of lines 164-172 for an event starting at t
AdvanceHour(t, st) ==
    IF DtGeq(t, st.next_hour)
    THEN AdvanceHour(t,
            [grouped_hours |-> IF st.hour_data.stages # <<>>
                               THEN Append(st.grouped_hours, st.hour_data)
                               ELSE st.grouped_hours,
             current_hour |-> st.next_hour,
             next_hour |-> AddSeconds(st.next_hour, 3600),
             hour_data |-> NewHourData(st.next_hour, AddSeconds(st.next_hour, 3600))])
    ELSE st

RECURSIVE GroupLoopLocalIndex(_, _, _, _)
\* numbers the stages of every bucket from 1
GroupLoopLocalIndex(evs, i, dt, st) ==
    IF i > Len(evs) THEN st
    ELSE LET event_start_seconds == evs[i].start_epoch * EPOCH_DURATION
             event_start_time == AddSeconds(dt, event_start_seconds)
             st2 == AdvanceHour(event_start_time, st)
         IN  GroupLoopLocalIndex(evs, i + 1, dt,
                [st2 EXCEPT !.hour_data.stages =
                    Append(@, <<Len(@) + 1, evs[i].stage, evs[i].duration>>)])

RECURSIVE GroupLoop(_, _, _, _)
\* the for loop of lines 158-175 from the i-th event
GroupLoop(evs, i, dt, st) ==
    IF i > Len(evs) THEN st
    ELSE LET event_start_seconds == evs[i].start_epoch * EPOCH_DURATION
             event_start_time == AddSeconds(dt, event_start_seconds)
             st2 == AdvanceHour(event_start_time, st)
         IN  GroupLoop(evs, i + 1, dt,
                [st2 EXCEPT !.hour_data.stages =
                    Append(@, <<i, evs[i].stage, evs[i].duration>>)])

group_events_by_hour(evs, dt) ==
    IF dt = None
    THEN << [hour_range |-> ALL_EVENTS, stages |-> EnumeratedStages(evs)] >>
    ELSE LET current_hour == FloorHour(dt)
             next_hour == AddSeconds(current_hour, 3600)
             st == GroupLoop(evs, 1, dt,
                      [grouped_hours |-> <<>>,
                       current_hour |-> current_hour,
                       next_hour |-> next_hour,
                       hour_data |-> NewHourData(current_hour, next_hour)])
         IN  IF st.hour_data.stages # <<>>
             THEN Append(st.grouped_hours, st.hour_data)
             ELSE st.grouped_hours

-----------------------------------------------------------------------------
(* generate_basic_stage_report, add_time_grouping *)

generate_basic_stage_report(data, evs, sm) ==
    [sleep_time |-> <<>>,
     duration |-> format_duration(Len(data) * EPOCH_DURATION),
     sleep_stage_summary |-> create_stage_summary(sm),
     sleep_stages_by_hour |-> <<>>]

\* leaves the hour list empty when there is no start time
add_time_grouping_no_fallback(rep, evs, st, en) ==
    LET r1 == IF st # None /\ en # None
              THEN [rep EXCEPT !.sleep_time = format_time_range(st, en)]
              ELSE rep
    IN  IF st # None
        THEN [r1 EXCEPT !.sleep_stages_by_hour = group_events_by_hour(evs, st)]
        ELSE r1

\* groups by hour only when the end time is present too
add_time_grouping_needs_end(rep, evs, st, en) ==
    LET r1 == IF st # None /\ en # None
              THEN [rep EXCEPT !.sleep_time = format_time_range(st, en)]
              ELSE rep
    IN  IF st # None /\ en # None
        THEN [r1 EXCEPT !.sleep_stages_by_hour = group_events_by_hour(evs, st)]
        ELSE [r1 EXCEPT !.sleep_stages_by_hour =
                << [hour_range |-> ALL_EVENTS, stages |-> EnumeratedStages(evs)] >>]

add_time_grouping(rep, evs, st, en) ==
    LET r1 == IF st # None /\ en # None
              THEN [rep EXCEPT !.sleep_time = format_time_range(st, en)]
              ELSE rep
    IN  IF st # None
        THEN [r1 EXCEPT !.sleep_stages_by_hour = group_events_by_hour(evs, st)]
        ELSE [r1 EXCEPT !.sleep_stages_by_hour =
                << [hour_range |-> ALL_EVENTS, stages |-> EnumeratedStages(evs)] >>]

-----------------------------------------------------------------------------
(* The report as the Python value it is: dicts as ordered lists of items *)

JStr(s) == [t |-> "str", v |-> s]
JNum(n) == [t |-> "num", v |-> n]
JArr(items) == [t |-> "arr", v |-> items]
JObj(items) == [t |-> "obj", v |-> items]

K_sleep_time == <<"s", "l", "e", "e", "p", "_", "t", "i", "m", "e">>
K_duration == <<"d", "u", "r", "a", "t", "i", "o", "n">>
K_sleep_stage_summary ==
    <<"s", "l", "e", "e", "p", "_", "s", "t", "a", "g", "e", "_", "s", "u", "m", "m", "a", "r", "y">>
K_sleep_stages_by_hour ==
    <<"s", "l", "e", "e", "p", "_", "s", "t", "a", "g", "e", "s", "_", "b", "y", "_", "h", "o", "u", "r">>
K_hour_range == <<"h", "o", "u", "r", "_", "r", "a", "n", "g", "e">>
K_stages == <<"s", "t", "a", "g", "e", "s">>

StageValue(st) == JArr(<<JNum(st[1]), JStr(st[2]), JStr(st[3])>>)

HourGroupValue(g) ==
    JObj(<< <<K_hour_range, JStr(g.hour_range)>>,
            <<K_stages, JArr([k \in 1..Len(g.stages) |-> StageValue(g.stages[k])])>> >>)

ReportValue(r) ==
    JObj(<< <<K_sleep_time, JStr(r.sleep_time)>>,
            <<K_duration, JStr(r.duration)>>,
            <<K_sleep_stage_summary,
              JObj([i \in 1..Len(r.sleep_stage_summary) |->
                      <<r.sleep_stage_summary[i][1],
                        JArr(<<JStr(r.sleep_stage_summary[i][2][1]),
                               JStr(r.sleep_stage_summary[i][2][2])>>)>>])>>,
            <<K_sleep_stages_by_hour,
              JArr([i \in 1..Len(r.sleep_stages_by_hour) |->
                      HourGroupValue(r.sleep_stages_by_hour[i])])>> >>)

-----------------------------------------------------------------------------
(* json.dumps *)

RECURSIVE Concat(_)
\* the concatenation of a list of lists
Concat(ss) == IF ss = <<>> THEN <<>> ELSE ss[1] \o Concat(Tail(ss))

\* the escape json.dumps writes for one character
EscapeChar(c) ==
    IF c = "\"" THEN <<"\\", "\"">>
    ELSE IF c = "\\" THEN <<"\\", "\\">>
    ELSE IF c = "\n" THEN <<"\\", "n">>
    ELSE IF c = "\t" THEN <<"\\", "t">>
    ELSE <<c>>

\* quotes a string without escaping it
DumpsStrRaw(s) == <<"\"">> \o s \o <<"\"">>

DumpsStr(s) ==
    <<"\"">> \o Concat([i \in 1..Len(s) |-> EscapeChar(s[i])]) \o <<"\"">>

RECURSIVE JsonDumps(_)
\* json.dumps(x) with the default separators ", " and ": "
JsonDumps(x) ==
    IF x.t = "str" THEN DumpsStr(x.v)
    ELSE IF x.t = "num" THEN IntToStr(x.v)
    ELSE IF x.t = "arr"
    THEN <<"[">> \o Join(<<",", " ">>, [i \in 1..Len(x.v) |-> JsonDumps(x.v[i])])
         \o <<"]">>
    ELSE <<"{">>
         \o Join(<<",", " ">>,
                 [i \in 1..Len(x.v) |->
                    DumpsStr(x.v[i][1]) \o <<":", " ">> \o JsonDumps(x.v[i][2])])
         \o <<"}">>

-----------------------------------------------------------------------------
(* format_json_compact *)

\* "  " * indent
Spaces(indent) == [i \in 1..(2 * indent) |-> " "]

\* "," if i < n - 1 else "" (i counted from 1 here)
Comma(i, n) == IF i < n THEN <<",">> ELSE <<>>

\* hour_group.get(key, default)
DictGet(d, key, default) ==
    IF \E i \in 1..Len(d.v) : d.v[i][1] = key
    THEN d.v[CHOOSE i \in 1..Len(d.v) : d.v[i][1] = key][2]
    ELSE default

\* lines 262-273: a non-empty "stages" list met as an ordinary dict item
StagesItemLines(spaces, key, value, i, n) ==
    << spaces \o <<" ", " ">> \o DumpsStrRaw(key) \o <<":", " ", "[">> >>
    \o [j \in 1..Len(value.v) |->
          spaces \o <<" ", " ", " ", " ">> \o JsonDumps(value.v[j])
          \o Comma(j, Len(value.v))]
    \o << spaces \o <<" ", " ", "]">> \o Comma(i, n) >>

\* drops the comma between two stages of an hour group
HourGroupLinesNoComma(spaces, hour_group, j, n) ==
    LET stages == DictGet(hour_group, K_stages, JArr(<<>>))
    IN  << spaces \o <<" ", " ", " ", " ", "{">>,
           spaces \o <<" ", " ", " ", " ", " ", " ">> \o DumpsStrRaw(K_hour_range)
           \o <<":", " ">>
           \o JsonDumps(DictGet(hour_group, K_hour_range, JStr(<<>>))) \o <<",">>,
           spaces \o <<" ", " ", " ", " ", " ", " ">> \o DumpsStrRaw(K_stages)
           \o <<":", " ", "[">> >>
        \o [k \in 1..Len(stages.v) |->
              spaces \o <<" ", " ", " ", " ", " ", " ", " ", " ">>
              \o JsonDumps(stages.v[k])]
        \o << spaces \o <<" ", " ", " ", " ", " ", " ", "]">>,
              spaces \o <<" ", " ", " ", " ", "}">> \o Comma(j, n) >>

\* lines 278-286: one hour group
HourGroupLines(spaces, hour_group, j, n) ==
    LET stages == DictGet(hour_group, K_stages, JArr(<<>>))
    IN  << spaces \o <<" ", " ", " ", " ", "{">>,
           spaces \o <<" ", " ", " ", " ", " ", " ">> \o DumpsStrRaw(K_hour_range)
           \o <<":", " ">>
           \o JsonDumps(DictGet(hour_group, K_hour_range, JStr(<<>>))) \o <<",">>,
           spaces \o <<" ", " ", " ", " ", " ", " ">> \o DumpsStrRaw(K_stages)
           \o <<":", " ", "[">> >>
        \o [k \in 1..Len(stages.v) |->
              spaces \o <<" ", " ", " ", " ", " ", " ", " ", " ">>
              \o JsonDumps(stages.v[k]) \o Comma(k, Len(stages.v))]
        \o << spaces \o <<" ", " ", " ", " ", " ", " ", "]">>,
              spaces \o <<" ", " ", " ", " ", "}">> \o Comma(j, n) >>

\* lines 276-287: the "sleep_stages_by_hour" item
HourItemLines(spaces, key, value, i, n) ==
    << spaces \o <<" ", " ">> \o DumpsStrRaw(key) \o <<":", " ", "[">> >>
    \o Concat([j \in 1..Len(value.v) |->
                 HourGroupLines(spaces, value.v[j], j, Len(value.v))])
    \o << spaces \o <<" ", " ", "]">> \o Comma(i, n) >>

RECURSIVE format_value(_, _)
format_value(obj, indent) ==
    LET spaces == Spaces(indent)
        n == Len(obj.v)
        ItemLines(i) ==
            LET key == obj.v[i][1]
                value == obj.v[i][2]
            IN  IF key = K_stages /\ value.t = "arr" /\ value.v # <<>>
                THEN StagesItemLines(spaces, key, value, i, n)
                ELSE IF key = K_sleep_stages_by_hour /\ value.t = "arr"
                THEN HourItemLines(spaces, key, value, i, n)
                ELSE << spaces \o <<" ", " ">> \o DumpsStrRaw(key) \o <<":", " ">>
                        \o (IF value.t \in {"obj", "arr"}
                            THEN format_value(value, indent + 1)
                            ELSE JsonDumps(value))
                        \o Comma(i, n) >>
    IN  IF obj.t = "obj"
        THEN IF obj.v = <<>> THEN <<"{", "}">>
             ELSE Join(<<"\n">>,
                       << <<"{">> >> \o Concat([i \in 1..n |-> ItemLines(i)])
                       \o << spaces \o <<"}">> >>)
        ELSE JsonDumps(obj)

format_json_compact(rep) == format_value(ReportValue(rep), 0)

-----------------------------------------------------------------------------
(* json.loads, the reader the serialized text is meant for: strings with   *)
(* the escapes \" \\ \/ \n \t, integers, arrays and objects                *)

Failed == [ok |-> FALSE, v |-> None, pos |-> 0]

Parsed(v, pos) == [ok |-> TRUE, v |-> v, pos |-> pos]

RECURSIVE SkipWs(_, _)
SkipWs(s, i) ==
    IF CharAt(s, i) \in {" ", "\n", "\t", "\r"} THEN SkipWs(s, i + 1) ELSE i

RECURSIVE ParseStrBody(_, _, _)
\* the characters of a string literal after its opening quote
ParseStrBody(s, i, acc) ==
    LET c == CharAt(s, i)
        e == CharAt(s, i + 1)
    IN  IF c = "<end>" \/ c = "\n" \/ c = "\t" \/ c = "\r" THEN Failed
        ELSE IF c = "\"" THEN Parsed(acc, i + 1)
        ELSE IF c = "\\"
        THEN IF e = "\"" \/ e = "\\" \/ e = "/"
             THEN ParseStrBody(s, i + 2, Append(acc, e))
             ELSE IF e = "n" THEN ParseStrBody(s, i + 2, Append(acc, "\n"))
             ELSE IF e = "t" THEN ParseStrBody(s, i + 2, Append(acc, "\t"))
             ELSE Failed
        ELSE ParseStrBody(s, i + 1, Append(acc, c))

ParseString(s, i) ==
    IF CharAt(s, i) = "\"" THEN ParseStrBody(s, i + 1, <<>>) ELSE Failed

RECURSIVE DigitsToNat(_, _, _)
DigitsToNat(s, i, k) ==
    IF k = 0 THEN 0
    ELSE DigitsToNat(s, i, k - 1) * 10 + DigitVal(s[i + k - 1])

ParseNumber(s, i) ==
    LET neg == CharAt(s, i) = "-"
        at == IF neg THEN i + 1 ELSE i
        k == DigitRun(s, at)
    IN  IF k = 0 \/ (k > 1 /\ s[at] = "0") THEN Failed
        ELSE Parsed(IF neg THEN 0 - DigitsToNat(s, at, k) ELSE DigitsToNat(s, at, k),
                    at + k)

\* d[key] = value on a dict kept as the ordered list of its items
DictSet(d, key, value) ==
    IF \E i \in 1..Len(d) : d[i][1] = key
    THEN [i \in 1..Len(d) |-> IF d[i][1] = key THEN <<key, value>> ELSE d[i]]
    ELSE Append(d, <<key, value>>)

RECURSIVE ParseValue(_, _)
RECURSIVE ParseArrayRest(_, _, _)
RECURSIVE ParseObjectRest(_, _, _)

\* the items of an array from its next item on
ParseArrayRest(s, i, acc) ==
    LET item == ParseValue(s, SkipWs(s, i))
        j == SkipWs(s, item.pos)
    IN  IF ~item.ok THEN Failed
        ELSE IF CharAt(s, j) = "," THEN ParseArrayRest(s, j + 1, Append(acc, item.v))
        ELSE IF CharAt(s, j) = "]" THEN Parsed(JArr(Append(acc, item.v)), j + 1)
        ELSE Failed

\* the items of an object from its next key on
ParseObjectRest(s, i, acc) ==
    LET key == ParseString(s, SkipWs(s, i))
        c == SkipWs(s, key.pos)
        item == ParseValue(s, SkipWs(s, c + 1))
        j == SkipWs(s, item.pos)
    IN  IF ~key.ok \/ CharAt(s, c) # ":" THEN Failed
        ELSE IF ~item.ok THEN Failed
        ELSE IF CharAt(s, j) = ","
             THEN ParseObjectRest(s, j + 1, DictSet(acc, key.v, item.v))
        ELSE IF CharAt(s, j) = "}"
             THEN Parsed(JObj(DictSet(acc, key.v, item.v)), j + 1)
        ELSE Failed

ParseValue(s, i) ==
    LET c == CharAt(s, i)
    IN  IF c = "\""
        THEN LET r == ParseString(s, i)
             IN  IF r.ok THEN Parsed(JStr(r.v), r.pos) ELSE Failed
        ELSE IF c = "-" \/ IsDigit(c)
        THEN LET r == ParseNumber(s, i)
             IN  IF r.ok THEN Parsed(JNum(r.v), r.pos) ELSE Failed
        ELSE IF c = "["
        THEN IF CharAt(s, SkipWs(s, i + 1)) = "]"
             THEN Parsed(JArr(<<>>), SkipWs(s, i + 1) + 1)
             ELSE ParseArrayRest(s, i + 1, <<>>)
        ELSE IF c = "{"
        THEN IF CharAt(s, SkipWs(s, i + 1)) = "}"
             THEN Parsed(JObj(<<>>), SkipWs(s, i + 1) + 1)
             ELSE ParseObjectRest(s, i + 1, <<>>)
        ELSE Failed

\* json.loads(text): the value, or JSONDecodeError
JsonLoads(s) ==
    LET r == ParseValue(s, SkipWs(s, 1))
    IN  IF r.ok /\ SkipWs(s, r.pos) = Len(s) + 1 THEN r.v ELSE Raised("JSONDecodeError")

-----------------------------------------------------------------------------
(* Inputs *)

\* stage codes of the short hypnograms: a known code and two unknown ones
Codes == {WAKE, 4, 15}

\* the long hypnograms are runs of these lengths, alternately REM and 4
RunLens == {1, 119, 120, 250}

RunCode(i) == IF i % 2 = 1 THEN REM ELSE 4

\* [code] * n
Repeat(code, n) == [i \in 1..n |-> code]

RECURSIVE SeqsUpTo(_, _)
\* the sequences over S of length at most n
SeqsUpTo(S, n) ==
    IF n = 0 THEN {<<>>}
    ELSE LET shorter == SeqsUpTo(S, n - 1)
         IN  shorter \cup {Append(q, x) : q \in {r \in shorter : Len(r) = n - 1}, x \in S}

Hypnograms ==
    SeqsUpTo(Codes, MaxLen)
    \cup {Concat([i \in 1..Len(lens) |-> Repeat(RunCode(i), lens[i])]) :
            lens \in SeqsUpTo(RunLens, MaxRuns)}

T_2300 == <<"2", "0", "2", "4", "-", "0", "1", "-", "1", "5", " ", "2", "3", ":", "0", "0", ":", "0", "0">>
T_leap_2359 == <<"2", "0", "2", "4", "-", "0", "2", "-", "2", "9", " ", "2", "3", ":", "5", "9", ":", "3", "0">>
T_unpadded == <<"2", "0", "2", "4", "-", "1", "-", "5", " ", "3", ":", "4", ":", "5">>
T_no_such_day == <<"2", "0", "2", "3", "-", "0", "2", "-", "2", "9", " ", "1", "0", ":", "0", "0", ":", "0", "0">>
T_iso == <<"2", "0", "2", "4", "-", "0", "1", "-", "1", "5", "T", "2", "3", ":", "0", "0", ":", "0", "0">>
T_0730 == <<"2", "0", "2", "4", "-", "0", "1", "-", "1", "6", " ", "0", "7", ":", "3", "0", ":", "0", "0">>
T_words == <<"t", "o", "m", "o", "r", "r", "o", "w">>

StartTexts == {<<>>, T_2300, T_leap_2359, T_unpadded, T_no_such_day, T_iso}

EndTexts(st) == {<<>>, st, T_0730, T_words}

-----------------------------------------------------------------------------
(* generate_hypnogram_report, one action per statement *)

Init ==
    /\ hypnogram_data \in Hypnograms
    /\ start_time \in StartTexts
    /\ end_time \in EndTexts(start_time)
    /\ compact \in BOOLEAN
    /\ events = None
    /\ summary = None
    /\ report = None
    /\ start_dt = None
    /\ end_dt = None
    /\ result = None
    /\ pc = "extract"
    /\ seconds = 0
    /\ formatted = None
    /\ dt1 = None
    /\ dt2 = None
    /\ time_delta = None
    /\ self_stat = None
    /\ other_stat = None
    /\ stat_delta = None

\* line 338
ExtractEvents ==
    /\ pc = "extract"
    /\ events' = extract_events_from_hypnogram(hypnogram_data)
    /\ pc' = "summarize"
    /\ UNCHANGED <<hypnogram_data, start_time, end_time, compact, summary, report,
                   start_dt, end_dt, result, seconds, formatted>>
    /\ UNCHANGED stat_vars

\* line 339
CalculateSummary ==
    /\ pc = "summarize"
    /\ summary' = calculate_stage_summary(hypnogram_data)
    /\ pc' = "basic"
    /\ UNCHANGED <<hypnogram_data, start_time, end_time, compact, events, report,
                   start_dt, end_dt, result, seconds, formatted>>
    /\ UNCHANGED stat_vars

\* line 342
GenerateBasicReport ==
    /\ pc = "basic"
    /\ report' = generate_basic_stage_report(hypnogram_data, events, summary)
    /\ pc' = "parse"
    /\ UNCHANGED <<hypnogram_data, start_time, end_time, compact, events, summary,
                   start_dt, end_dt, result, seconds, formatted>>
    /\ UNCHANGED stat_vars

\* lines 345-346
ParseTimes ==
    /\ pc = "parse"
    /\ start_dt' = parse_time(start_time)
    /\ end_dt' = parse_time(end_time)
    /\ pc' = "end_time"
    /\ UNCHANGED <<hypnogram_data, start_time, end_time, compact, events, summary,
                   report, result, seconds, formatted>>
    /\ UNCHANGED stat_vars

\* the condition of line 349
NeedsEndTime(st, en, data) == st # None /\ en = st /\ data # <<>>

\* lines 338-353: the report generate_hypnogram_report builds for its arguments
generate_report_value(data, st_text, en_text) ==
    LET evs == extract_events_from_hypnogram(data)
        sm == calculate_stage_summary(data)
        rep == generate_basic_stage_report(data, evs, sm)
        st == parse_time(st_text)
        en == parse_time(en_text)
    IN  add_time_grouping(rep, evs, st,
                          IF NeedsEndTime(st, en, data)
                          THEN calculate_end_time(st, Len(data))
                          ELSE en)

\* lines 349-350, condition true
CalculateEndTime ==
    /\ pc = "end_time"
    /\ NeedsEndTime(start_dt, end_dt, hypnogram_data)
    /\ end_dt' = calculate_end_time(start_dt, Len(hypnogram_data))
    /\ pc' = "grouping"
    /\ UNCHANGED <<hypnogram_data, start_time, end_time, compact, events, summary,
                   report, start_dt, result, seconds, formatted>>
    /\ UNCHANGED stat_vars

\* line 349, condition false
KeepEndTime ==
    /\ pc = "end_time"
    /\ ~NeedsEndTime(start_dt, end_dt, hypnogram_data)
    /\ pc' = "grouping"
    /\ UNCHANGED <<hypnogram_data, start_time, end_time, compact, events, summary,
                   report, start_dt, end_dt, result, seconds, formatted>>
    /\ UNCHANGED stat_vars

\* line 353
AddTimeGrouping ==
    /\ pc = "grouping"
    /\ report' = add_time_grouping(report, events, start_dt, end_dt)
    /\ pc' = "return"
    /\ UNCHANGED <<hypnogram_data, start_time, end_time, compact, events, summary,
                   start_dt, end_dt, result, seconds, formatted>>
    /\ UNCHANGED stat_vars

\* line 356, compact
ReturnCompact ==
    /\ pc = "return"
    /\ compact
    /\ result' = format_json_compact(report)
    /\ pc' = "done"
    /\ UNCHANGED <<hypnogram_data, start_time, end_time, compact, events, summary,
                   report, start_dt, end_dt, seconds, formatted>>
    /\ UNCHANGED stat_vars

\* line 356, not compact
ReturnReport ==
    /\ pc = "return"
    /\ ~compact
    /\ result' = report
    /\ pc' = "done"
    /\ UNCHANGED <<hypnogram_data, start_time, end_time, compact, events, summary,
                   report, start_dt, end_dt, seconds, formatted>>
    /\ UNCHANGED stat_vars

Next ==
    \/ ExtractEvents
    \/ CalculateSummary
    \/ GenerateBasicReport
    \/ ParseTimes
    \/ CalculateEndTime
    \/ KeepEndTime
    \/ AddTimeGrouping
    \/ ReturnCompact
    \/ ReturnReport

Spec == Init /\ [][Next]_vars

-----------------------------------------------------------------------------
(* A direct call of format_duration *)

InitFormatDuration ==
    /\ hypnogram_data = <<>>
    /\ start_time = <<>>
    /\ end_time = <<>>
    /\ compact = FALSE
    /\ events = None
    /\ summary = None
    /\ report = None
    /\ start_dt = None
    /\ end_dt = None
    /\ result = None
    /\ pc = "format_duration"
    /\ seconds \in 0..MaxSeconds
    /\ formatted = None
    /\ dt1 = None
    /\ dt2 = None
    /\ time_delta = None
    /\ self_stat = None
    /\ other_stat = None
    /\ stat_delta = None

CallFormatDuration ==
    /\ pc = "format_duration"
    /\ formatted' = format_duration(seconds)
    /\ pc' = "formatted"
    /\ UNCHANGED <<hypnogram_data, start_time, end_time, compact, events, summary,
                   report, start_dt, end_dt, result, seconds>>
    /\ UNCHANGED stat_vars

NextFormatDuration == CallFormatDuration

SpecFormatDuration == InitFormatDuration /\ [][NextFormatDuration]_vars

-----------------------------------------------------------------------------
(* stat.py: subtract_relative_time                                         *)
(* Here a datetime is [ord, sec, tz]: tz is None for a naive datetime and  *)
(* [utcoffset |-> seconds] for an aware one.  A time of day is its second  *)
(* of the day, a timedelta its number of seconds; microseconds are 0.      *)

\* datetime.min, 0001-01-01 00:00:00
datetime_min == [ord |-> 1, sec |-> 0, tz |-> None]

\* dt.time(): the time of day, without the date and without the tzinfo
Time(dt) == dt.sec

\* datetime.combine(date, time): the date of the first, the time of the second
Combine(date, time) == [ord |-> date.ord, sec |-> time, tz |-> None]

\* (a - b).total_seconds() for naive datetimes
TotalSeconds(a, b) == (a.ord - b.ord) * 86400 + (a.sec - b.sec)

\* the function without the branch that turns -12h into +12h
subtract_relative_time_unfolded(a, b) ==
    LET dt1_time == Combine(datetime_min, Time(a))
        dt2_time == Combine(datetime_min, Time(b))
        delta_seconds == TotalSeconds(dt1_time, dt2_time)
    IN  ((delta_seconds + 12 * 3600) % (24 * 3600)) - 12 * 3600

subtract_relative_time(a, b) ==
    LET dt1_time == Combine(datetime_min, Time(a))
        dt2_time == Combine(datetime_min, Time(b))
        delta_seconds == TotalSeconds(dt1_time, dt2_time)
        delta_seconds_mod == ((delta_seconds + 12 * 3600) % (24 * 3600)) - 12 * 3600
    IN  IF delta_seconds_mod = -(12 * 3600) THEN 12 * 3600 ELSE delta_seconds_mod

-----------------------------------------------------------------------------
(* A direct call of subtract_relative_time *)

\* the report generator at rest
ReportIdle ==
    /\ hypnogram_data = <<>>
    /\ start_time = <<>>
    /\ end_time = <<>>
    /\ compact = FALSE
    /\ events = None
    /\ summary = None
    /\ report = None
    /\ start_dt = None
    /\ end_dt = None
    /\ result = None
    /\ seconds = 0
    /\ formatted = None

\* the dates of the datetimes: 2023-10-01 and the days after it
StatDates == {MakeDatetime(2023, 10, 1, 0, 0, 0).ord + k : k \in 0..MaxDayOffset}

\* the times of day: every hour, on the hour, ten minutes and 59m 59s past it
StatTimes == {h * 3600 + s : h \in 0..23, s \in {0, 600, 3599}}

\* naive, and aware at UTC+9
StatTzInfos == {None, [utcoffset |-> 9 * 3600]}

StatDatetimes == [ord : StatDates, sec : StatTimes, tz : StatTzInfos]

InitSubtractTime ==
    /\ ReportIdle
    /\ pc = "subtract_relative_time"
    /\ dt1 \in StatDatetimes
    /\ dt2 \in StatDatetimes
    /\ time_delta = None
    /\ self_stat = None
    /\ other_stat = None
    /\ stat_delta = None

CallSubtractRelativeTime ==
    /\ pc = "subtract_relative_time"
    /\ time_delta' = subtract_relative_time(dt1, dt2)
    /\ pc' = "subtracted"
    /\ UNCHANGED report_vars
    /\ UNCHANGED <<dt1, dt2, self_stat, other_stat, stat_delta>>

NextSubtractTime == CallSubtractRelativeTime

SpecSubtractTime == InitSubtractTime /\ [][NextSubtractTime]_vars

-----------------------------------------------------------------------------
(* stat.py: SleepStat and SleepStat.__sub__                                *)
(* A SleepStat is a record of its fields.  A timedelta is its number of    *)
(* seconds, a float ratio a whole number of its unit.  A field annotated   *)
(* "| None" holds None or Some(v), so that a value of 0 and the absence of *)
(* a value stay apart.  breathing_pattern and sleep_cycle_time take no     *)
(* part in the subtraction and are left out.                               *)

Some(v) == [val |-> v]

\* the truth value Python gives an optional field in a condition: None, 0,
\* 0.0 and timedelta(0) are false
Truthy(x) == x # None /\ x.val # 0

\* the fields without a default, apart from the two datetimes
RequiredFields ==
    <<"sleep_index", "sleep_latency", "wakeup_latency", "light_latency",
      "deep_latency", "rem_latency", "time_in_bed", "time_in_sleep_period",
      "time_in_sleep", "time_in_wake", "time_in_light", "time_in_deep",
      "time_in_rem", "time_in_stable_breath", "time_in_unstable_breath",
      "sleep_efficiency", "breathing_index">>

\* the fields annotated "| None = None"
OptionalFields ==
    <<"time_in_snoring", "time_in_no_snoring", "sleep_ratio", "wake_ratio",
      "light_ratio", "deep_ratio", "rem_ratio", "stable_breath_ratio",
      "unstable_breath_ratio", "snoring_ratio", "no_snoring_ratio",
      "waso_count", "longest_waso", "sleep_cycle_count", "sleep_cycle",
      "unstable_breath_count", "snoring_count">>

\* SleepStatDelta(...) keeps the keyword arguments as its fields
SleepStat_sub(self, other) ==
    [sleep_time |-> subtract_relative_time(self.sleep_time, other.sleep_time),
     wake_time |-> subtract_relative_time(self.wake_time, other.wake_time),
     sleep_index |-> self.sleep_index - other.sleep_index,
     sleep_latency |-> self.sleep_latency - other.sleep_latency,
     wakeup_latency |-> self.wakeup_latency - other.wakeup_latency,
     light_latency |-> self.light_latency - other.light_latency,
     deep_latency |-> self.deep_latency - other.deep_latency,
     rem_latency |-> self.rem_latency - other.rem_latency,
     time_in_bed |-> self.time_in_bed - other.time_in_bed,
     time_in_sleep_period |-> self.time_in_sleep_period - other.time_in_sleep_period,
     time_in_sleep |-> self.time_in_sleep - other.time_in_sleep,
     time_in_wake |-> self.time_in_wake - other.time_in_wake,
     time_in_light |-> self.time_in_light - other.time_in_light,
     time_in_deep |-> self.time_in_deep - other.time_in_deep,
     time_in_rem |-> self.time_in_rem - other.time_in_rem,
     time_in_stable_breath |-> self.time_in_stable_breath - other.time_in_stable_breath,
     time_in_unstable_breath |-> self.time_in_unstable_breath - other.time_in_unstable_breath,
     time_in_snoring |->
          IF Truthy(self.time_in_snoring) /\ Truthy(other.time_in_snoring)
          THEN Some(self.time_in_snoring.val - other.time_in_snoring.val) ELSE None,
     time_in_no_snoring |->
          IF Truthy(self.time_in_no_snoring) /\ Truthy(other.time_in_no_snoring)
          THEN Some(self.time_in_no_snoring.val - other.time_in_no_snoring.val) ELSE None,
     sleep_efficiency |-> self.sleep_efficiency - other.sleep_efficiency,
     sleep_ratio |->
          IF Truthy(self.sleep_ratio) /\ Truthy(other.sleep_ratio)
          THEN Some(self.sleep_ratio.val - other.sleep_ratio.val) ELSE None,
     wake_ratio |->
          IF Truthy(self.wake_ratio) /\ Truthy(other.wake_ratio)
          THEN Some(self.wake_ratio.val - other.wake_ratio.val) ELSE None,
     light_ratio |->
          IF Truthy(self.light_ratio) /\ Truthy(other.light_ratio)
          THEN Some(self.light_ratio.val - other.light_ratio.val) ELSE None,
     deep_ratio |->
          IF Truthy(self.deep_ratio) /\ Truthy(other.deep_ratio)
          THEN Some(self.deep_ratio.val - other.deep_ratio.val) ELSE None,
     rem_ratio |->
          IF Truthy(self.rem_ratio) /\ Truthy(other.rem_ratio)
          THEN Some(self.rem_ratio.val - other.rem_ratio.val) ELSE None,
     stable_breath_ratio |->
          IF Truthy(self.stable_breath_ratio) /\ Truthy(other.stable_breath_ratio)
          THEN Some(self.stable_breath_ratio.val - other.stable_breath_ratio.val) ELSE None,
     unstable_breath_ratio |->
          IF Truthy(self.unstable_breath_ratio) /\ Truthy(other.unstable_breath_ratio)
          THEN Some(self.unstable_breath_ratio.val - other.unstable_breath_ratio.val) ELSE None,
     snoring_ratio |->
          IF Truthy(self.snoring_ratio) /\ Truthy(other.snoring_ratio)
          THEN Some(self.snoring_ratio.val - other.snoring_ratio.val) ELSE None,
     no_snoring_ratio |->
          IF Truthy(self.no_snoring_ratio) /\ Truthy(other.no_snoring_ratio)
          THEN Some(self.no_snoring_ratio.val - other.no_snoring_ratio.val) ELSE None,
     breathing_index |-> self.breathing_index - other.breathing_index,
     waso_count |->
          IF Truthy(self.waso_count) /\ Truthy(other.waso_count)
          THEN Some(self.waso_count.val - other.waso_count.val) ELSE None,
     longest_waso |->
          IF Truthy(self.longest_waso) /\ Truthy(other.longest_waso)
          THEN Some(self.longest_waso.val - other.longest_waso.val) ELSE None,
     sleep_cycle_count |->
          IF Truthy(self.sleep_cycle_count) /\ Truthy(other.sleep_cycle_count)
          THEN Some(self.sleep_cycle_count.val - other.sleep_cycle_count.val) ELSE None,
     sleep_cycle |->
          IF Truthy(self.sleep_cycle) /\ Truthy(other.sleep_cycle)
          THEN Some(self.sleep_cycle.val - other.sleep_cycle.val) ELSE None,
     unstable_breath_count |->
          IF Truthy(self.unstable_breath_count) /\ Truthy(other.unstable_breath_count)
          THEN Some(self.unstable_breath_count.val - other.unstable_breath_count.val) ELSE None,
     snoring_count |->
          IF Truthy(self.snoring_count) /\ Truthy(other.snoring_count)
          THEN Some(self.snoring_count.val - other.snoring_count.val) ELSE None]

-----------------------------------------------------------------------------
(* A subtraction of two SleepStat objects *)

\* went to sleep at 23:00 and woke at 07:00, or at 01:00 and 06:30
StatNights ==
    { <<[ord |-> MakeDatetime(2023, 10, 1, 0, 0, 0).ord, sec |-> 23 * 3600, tz |-> None],
        [ord |-> MakeDatetime(2023, 10, 2, 0, 0, 0).ord, sec |-> 7 * 3600, tz |-> None]>>,
      <<[ord |-> MakeDatetime(2023, 10, 2, 0, 0, 0).ord, sec |-> 3600, tz |-> None],
        [ord |-> MakeDatetime(2023, 10, 2, 0, 0, 0).ord, sec |-> 6 * 3600 + 1800, tz |-> None]>> }

\* the required fields hold base + their position in RequiredFields
StatBases == {0, 30}

\* the optional fields other than the varied one: all None, all 0, or
\* each its position in OptionalFields
StatFills == {"none", "zero", "position"}

\* the values of the varied optional field
StatValues == {None} \cup {Some(v) : v \in 0..MaxStatValue}

FieldPosition(fields, name) == CHOOSE i \in 1..Len(fields) : fields[i] = name

FieldNames(fields) == {fields[i] : i \in 1..Len(fields)}

\* a SleepStat whose optional field named focus holds value
MakeStat(night, base, fill, focus, value) ==
    [f \in {"sleep_time", "wake_time"} \cup FieldNames(RequiredFields)
              \cup FieldNames(OptionalFields) |->
        CASE f = "sleep_time" -> night[1]
          [] f = "wake_time" -> night[2]
          [] f \in FieldNames(RequiredFields) -> base + FieldPosition(RequiredFields, f)
          [] f = focus -> value
          [] OTHER ->
               CASE fill = "none" -> None
                 [] fill = "zero" -> Some(0)
                 [] OTHER -> Some(FieldPosition(OptionalFields, f))]

InitSleepStat ==
    /\ ReportIdle
    /\ pc = "sub"
    /\ dt1 = None
    /\ dt2 = None
    /\ time_delta = None
    /\ \E focus \in FieldNames(OptionalFields) :
         /\ self_stat \in {MakeStat(n, b, fl, focus, v) :
                             n \in StatNights, b \in StatBases,
                             fl \in StatFills, v \in StatValues}
         /\ other_stat \in {MakeStat(n, b, fl, focus, v) :
                              n \in StatNights, b \in StatBases,
                              fl \in StatFills, v \in StatValues}
    /\ stat_delta = None

CallSub ==
    /\ pc = "sub"
    /\ stat_delta' = SleepStat_sub(self_stat, other_stat)
    /\ pc' = "subtracted"
    /\ UNCHANGED report_vars
    /\ UNCHANGED <<dt1, dt2, time_delta, self_stat, other_stat>>

NextSleepStat == CallSub

SpecSleepStat == InitSleepStat /\ [][NextSleepStat]_vars

-----------------------------------------------------------------------------
(* Reading a formatted duration back, for the properties below *)

RECURSIVE DurationPartsFrom(_, _)
\* the parts "<digits><unit>" of s from index i, separated by single spaces;
\* <<"malformed">> is appended where the text is no such list
DurationPartsFrom(s, i) ==
    LET k == DigitRun(s, i)
        unit == CharAt(s, i + k)
        part == [value |-> DigitsToNat(s, i, k), unit |-> unit, digits |-> k]
    IN  IF k = 0 \/ unit \notin {"h", "m", "s"} THEN <<[value |-> 0, unit |-> "malformed", digits |-> 0]>>
        ELSE IF i + k = Len(s) THEN <<part>>
        ELSE IF CharAt(s, i + k + 1) = " " THEN <<part>> \o DurationPartsFrom(s, i + k + 2)
        ELSE <<[value |-> 0, unit |-> "malformed", digits |-> 0]>>

DurationParts(s) == DurationPartsFrom(s, 1)

UnitSeconds(u) == IF u = "h" THEN 3600 ELSE IF u = "m" THEN 60 ELSE 1

UnitRank(u) == IF u = "h" THEN 1 ELSE IF u = "m" THEN 2 ELSE 3

WellFormedDuration(s) ==
    \A i \in 1..Len(DurationParts(s)) : DurationParts(s)[i].unit # "malformed"

RECURSIVE SumParts(_)
SumParts(parts) ==
    IF parts = <<>> THEN 0
    ELSE parts[1].value * UnitSeconds(parts[1].unit) + SumParts(Tail(parts))

\* the number of seconds a formatted duration stands for
DurationSeconds(s) == SumParts(DurationParts(s))

RECURSIVE SumSeq(_)
SumSeq(q) == IF q = <<>> THEN 0 ELSE q[1] + SumSeq(Tail(q))

Extracted == pc # "extract"
Summarized == pc \notin {"extract", "summarize"}
Grouped == pc \in {"return", "done"}

-----------------------------------------------------------------------------
(* Hour grouping *)

\* the [index, stage, duration] triples of all buckets in emission order
AllTriples(groups) == Concat([b \in 1..Len(groups) |-> groups[b].stages])

\* the number of triples in the buckets before bucket b
TriplesBefore(groups, b) == Len(AllTriples(SubSeq(groups, 1, b - 1)))

\* the absolute start time of the i-th event
EventTime(i) == AddSeconds(start_dt, events[i].start_epoch * EPOCH_DURATION)

DtLess(a, b) == ~DtGeq(a, b)

\* C1: with a start time, the buckets hold the events in order, each event
\* once, every event in the bucket labelled with the clock hour that contains
\* its start time; no bucket is empty; the hours of the buckets are strictly
\* increasing.
C1_HourBuckets ==
    (Grouped /\ start_dt # None) =>
        LET groups == report.sleep_stages_by_hour
            flat == AllTriples(groups)
        IN  /\ Len(flat) = Len(events)
            /\ \A b \in 1..Len(groups) :
                 /\ groups[b].stages # <<>>
                 /\ \A k \in 1..Len(groups[b].stages) :
                      LET i == TriplesBefore(groups, b) + k
                          hour == FloorHour(EventTime(i))
                      IN  /\ groups[b].stages[k][2] = events[i].stage
                          /\ groups[b].stages[k][3] = events[i].duration
                          /\ DtGeq(EventTime(i), hour)
                          /\ DtLess(EventTime(i), AddSeconds(hour, 3600))
                          /\ groups[b].hour_range
                               = format_time_range(hour, AddSeconds(hour, 3600))
            /\ \A b \in 1..(Len(groups) - 1) :
                 DtLess(FloorHour(EventTime(TriplesBefore(groups, b) + 1)),
                        FloorHour(EventTime(TriplesBefore(groups, b + 1) + 1)))

\* two buckets with at least one whole clock hour skipped between them
C1_Witness ==
    /\ pc = "done"
    /\ start_dt # None
    /\ Len(report.sleep_stages_by_hour) = 2
    /\ Len(events) = 2
    /\ DtGeq(FloorHour(EventTime(2)), AddSeconds(FloorHour(EventTime(1)), 7200))

\* C2: with a start time, the first elements of the triples of all buckets,
\* read in emission order, are 1, 2, ..., n, and the k-th triple carries the
\* stage and the duration of the k-th event.
C2_GlobalIndex ==
    (Grouped /\ start_dt # None) =>
        LET flat == AllTriples(report.sleep_stages_by_hour)
        IN  /\ Len(flat) = Len(events)
            /\ \A k \in 1..Len(flat) :
                 flat[k] = <<k, events[k].stage, events[k].duration>>

\* a second bucket whose first triple continues the numbering of the first
C2_Witness ==
    /\ pc = "done"
    /\ start_dt # None
    /\ Len(report.sleep_stages_by_hour) >= 2
    /\ Len(report.sleep_stages_by_hour[2].stages) >= 2
    /\ report.sleep_stages_by_hour[2].stages[1][1] = 2
    /\ report.sleep_stages_by_hour[2].stages[2][1] = 3

-----------------------------------------------------------------------------
(* Event extraction *)

\* the number of epochs an event covers, read from its duration
EventEpochs(e) == DurationSeconds(e.duration) \div EPOCH_DURATION

\* C3: the events partition the epochs 0..len-1: the first starts at 0, each
\* next one starts where the previous one ends, the last one ends at len, and
\* the durations sum to len * 30 seconds; no epochs, no events.
C3_EventsPartition ==
    Extracted =>
        /\ hypnogram_data = <<>> => events = <<>>
        /\ hypnogram_data # <<>> =>
             /\ events # <<>>
             /\ events[1].start_epoch = 0
             /\ \A i \in 1..Len(events) :
                  /\ WellFormedDuration(events[i].duration)
                  /\ DurationSeconds(events[i].duration) % EPOCH_DURATION = 0
                  /\ EventEpochs(events[i]) >= 1
             /\ \A i \in 1..(Len(events) - 1) :
                  events[i + 1].start_epoch
                    = events[i].start_epoch + EventEpochs(events[i])
             /\ events[Len(events)].start_epoch + EventEpochs(events[Len(events)])
                  = Len(hypnogram_data)
        /\ SumSeq([i \in 1..Len(events) |-> DurationSeconds(events[i].duration)])
             = Len(hypnogram_data) * EPOCH_DURATION

\* several events, at least one of them longer than an epoch
C3_Witness ==
    /\ pc = "done"
    /\ Len(events) >= 2
    /\ Len(hypnogram_data) > Len(events)
    /\ events[2].start_epoch > 1

\* C4: no two consecutive events have the same stage name, and every event
\* is a maximal run: its epochs carry one code, the epoch after it carries
\* another.
C4_MaximalRuns ==
    Extracted =>
        /\ \A i \in 1..(Len(events) - 1) : events[i].stage # events[i + 1].stage
        /\ \A i \in 1..Len(events) :
             LET first == events[i].start_epoch + 1
                 last == IF i < Len(events) THEN events[i + 1].start_epoch
                         ELSE Len(hypnogram_data)
             IN  /\ first <= last
                 /\ \A k \in first..last : hypnogram_data[k] = hypnogram_data[first]
                 /\ events[i].stage = StageName(hypnogram_data[first])
                 /\ last < Len(hypnogram_data)
                      => hypnogram_data[last + 1] # hypnogram_data[first]

\* two different unknown codes side by side, after a run of two epochs
C4_Witness ==
    /\ pc = "done"
    /\ hypnogram_data = <<4, 4, 15>>
    /\ Len(events) = 2
    /\ events[1].stage = UnknownName(4)
    /\ events[2].stage = UnknownName(15)

-----------------------------------------------------------------------------
(* Stage summary *)

KnownCodes == {STAGE_MAP[i][1] : i \in 1..Len(STAGE_MAP)}

\* the number of epochs a summary entry stands for, read from its duration
EntryEpochs(entry) == DurationSeconds(entry[2].duration) \div EPOCH_DURATION

\* C5: for a non-empty sequence the epoch counts behind the summary sum to
\* len; every epoch is counted under the one key that is its display name;
\* every unknown code has its own key "Unknown(<code>)".
C5_SummaryCounts ==
    (Summarized /\ hypnogram_data # <<>>) =>
        /\ \A n \in 1..Len(summary) :
             /\ WellFormedDuration(summary[n][2].duration)
             /\ DurationSeconds(summary[n][2].duration) % EPOCH_DURATION = 0
             /\ EntryEpochs(summary[n])
                  = Cardinality({i \in 1..Len(hypnogram_data) :
                                   StageName(hypnogram_data[i]) = summary[n][1]})
             /\ \A m \in 1..Len(summary) : summary[m][1] = summary[n][1] => m = n
        /\ SumSeq([n \in 1..Len(summary) |-> EntryEpochs(summary[n])])
             = Len(hypnogram_data)
        /\ \A code \in {hypnogram_data[i] : i \in 1..Len(hypnogram_data)} :
             code \notin KnownCodes =>
                \E n \in 1..Len(summary) :
                   /\ summary[n][1] = UnknownName(code)
                   /\ EntryEpochs(summary[n])
                        = Cardinality({k \in 1..Len(hypnogram_data) :
                                         hypnogram_data[k] = code})

\* two different unknown codes in one sequence, one of them twice
C5_Witness ==
    /\ pc = "done"
    /\ hypnogram_data = <<4, 15, 4>>
    /\ Len(summary) = 2
    /\ summary[1][1] = UnknownName(4)
    /\ summary[2][1] = UnknownName(15)

-----------------------------------------------------------------------------
(* Duration formatting *)

\* C6: format_duration gives "0s" for 0; otherwise its text is the list of
\* the parts <h>h, <m>m, <s>s in that order, separated by single spaces, with
\* h = seconds div 3600, m = (seconds mod 3600) div 60, s = seconds mod 60,
\* every part of value 0 left out except that the seconds part stays when h
\* and m are both 0; the text is never empty and has no part of value 0
\* other than the lone "0s".
C6_FormatDuration ==
    pc = "formatted" =>
        LET parts == DurationParts(formatted)
            h == seconds \div 3600
            m == (seconds % 3600) \div 60
            s == seconds % 60
            Has(u) == \E i \in 1..Len(parts) : parts[i].unit = u
        IN  /\ seconds = 0 => formatted = <<"0", "s">>
            /\ formatted # <<>>
            /\ WellFormedDuration(formatted)
            /\ \A i \in 1..Len(parts) :
                 /\ parts[i].digits = Len(NatToStr(parts[i].value))
                 /\ parts[i].unit = "h" => parts[i].value = h
                 /\ parts[i].unit = "m" => parts[i].value = m
                 /\ parts[i].unit = "s" => parts[i].value = s
                 /\ parts[i].value = 0 => seconds = 0
                 /\ \A j \in 1..Len(parts) :
                      i < j => UnitRank(parts[i].unit) < UnitRank(parts[j].unit)
            /\ Has("h") <=> h > 0
            /\ Has("m") <=> m > 0
            /\ Has("s") <=> (s > 0 \/ (h = 0 /\ m = 0))
            /\ DurationSeconds(formatted) = seconds

\* format_duration(3665) == "1h 1m 5s"
C6_Witness ==
    /\ pc = "formatted"
    /\ seconds = 3665
    /\ formatted = <<"1", "h", " ", "1", "m", " ", "5", "s">>

-----------------------------------------------------------------------------
(* The assembled report *)

\* C7: with start_time and end_time valid, not empty and equal, the
\* sleep_time range ends at start + N * 30 seconds, N the number of epochs.
C7_EqualStartEnd ==
    (Grouped /\ start_time # <<>> /\ start_time = end_time /\ start_dt # None) =>
        LET recomputed == AddSeconds(start_dt, Len(hypnogram_data) * EPOCH_DURATION)
        IN  /\ end_dt = recomputed
            /\ report.sleep_time
                 = Strftime12(start_dt) \o <<" ", "-", " ">> \o Strftime12(recomputed)

\* equal texts on a recording of 250 epochs: the range is not of zero width
C7_Witness ==
    /\ pc = "done"
    /\ start_time = T_2300
    /\ end_time = T_2300
    /\ Len(hypnogram_data) = 250
    /\ report.sleep_time
         = <<"1", "1", ":", "0", "0", " ", "P", "M", " ", "-", " ",
             "0", "1", ":", "0", "5", " ", "A", "M">>

\* C8: with no start time, for every sequence, the empty one too,
\* sleep_stages_by_hour is one group "All Events" whose stages are the
\* events in order as [i, stage, duration], i from 1.
C8_AllEvents ==
    (Grouped /\ start_time = <<>>) =>
        LET groups == report.sleep_stages_by_hour
        IN  /\ Len(groups) = 1
            /\ groups[1].hour_range = ALL_EVENTS
            /\ Len(groups[1].stages) = Len(events)
            /\ \A i \in 1..Len(events) :
                 groups[1].stages[i] = <<i, events[i].stage, events[i].duration>>

\* [0]*2 + [15] without times: one group, two entries
C8_Witness ==
    /\ pc = "done"
    /\ start_time = <<>>
    /\ hypnogram_data = <<WAKE, WAKE, 15>>
    /\ Len(report.sleep_stages_by_hour) = 1
    /\ Len(report.sleep_stages_by_hour[1].stages) = 2

Parses(text) == text # <<>> /\ Strptime(text) # Raised("ValueError")

\* no group is the fallback group
HourGrouped(groups) == \A b \in 1..Len(groups) : groups[b].hour_range # ALL_EVENTS

\* C12: sleep_time is the formatted range from the parsed start to the end
\* datetime exactly when both the start and the end text parse, and ""
\* otherwise.  sleep_stages_by_hour is the hour grouping of the events
\* seeded with the parsed start exactly when the start text parses, a value
\* the end text has no part in; otherwise it is the single group "All
\* Events".  So a valid start with an empty or malformed end has hour
\* buckets and sleep_time "".
C12_TimeGrouping ==
    Grouped =>
        LET groups == report.sleep_stages_by_hour
        IN  /\ report.sleep_time # <<>> <=> (Parses(start_time) /\ Parses(end_time))
            /\ (Parses(start_time) /\ Parses(end_time)) =>
                  /\ report.sleep_time
                       = Strftime12(Strptime(start_time)) \o <<" ", "-", " ">>
                           \o Strftime12(end_dt)
                  /\ Strptime(end_time) # Strptime(start_time) =>
                        end_dt = Strptime(end_time)
            /\ HourGrouped(groups) <=> Parses(start_time)
            /\ Parses(start_time) =>
                  groups = group_events_by_hour(events, Strptime(start_time))
            /\ ~Parses(start_time) =>
                  /\ Len(groups) = 1
                  /\ groups[1].hour_range = ALL_EVENTS
            /\ (Parses(start_time) /\ ~Parses(end_time) /\ hypnogram_data # <<>>) =>
                  /\ Len(groups) >= 1
                  /\ report.sleep_time = <<>>

\* 23:00 start, end "tomorrow", two hours of recording: two hour buckets and
\* no sleep_time
C12_Witness ==
    /\ pc = "done"
    /\ start_time = T_2300
    /\ end_time = T_words
    /\ report.sleep_time = <<>>
    /\ Len(report.sleep_stages_by_hour) = 2
    /\ report.sleep_stages_by_hour[1].hour_range
         = <<"1", "1", ":", "0", "0", " ", "P", "M", " ", "-", " ",
             "1", "2", ":", "0", "0", " ", "A", "M">>

-----------------------------------------------------------------------------
(* Serialization *)

\* C10: the text format_json_compact returns is valid JSON and reads back as
\* the report: same keys, same order of groups and triples, same strings
\* and numbers.
C10_JsonRoundTrip ==
    (pc = "done" /\ compact) => JsonLoads(result) = ReportValue(report)

\* a report with two hour groups, the second one with two stages
C10_Witness ==
    /\ pc = "done"
    /\ compact
    /\ Len(report.sleep_stages_by_hour) = 2
    /\ Len(report.sleep_stages_by_hour[2].stages) = 2
    /\ Len(report.sleep_stage_summary) = 3
    /\ JsonLoads(result) = ReportValue(report)

-----------------------------------------------------------------------------
(* Relative clock-time subtraction *)

HalfDay == 12 * 3600
FullDay == 24 * 3600

\* C11: subtract_relative_time(dt1, dt2) depends only on the two times of
\* day: replacing the date or the tzinfo of either argument leaves the result
\* unchanged.  The result is congruent to time(dt1) - time(dt2) modulo 24
\* hours and lies in (-12h, +12h]; a difference of exactly 12 hours, in
\* either direction, gives +12 hours.
C11_RelativeTime ==
    pc = "subtracted" =>
        LET diff == dt1.sec - dt2.sec IN
        /\ (time_delta - diff) % FullDay = 0
        /\ time_delta > -HalfDay
        /\ time_delta <= HalfDay
        /\ (diff = HalfDay \/ diff = -HalfDay) => time_delta = HalfDay
        /\ \A d \in StatDates, z \in StatTzInfos :
              /\ subtract_relative_time([dt1 EXCEPT !.ord = d, !.tz = z], dt2) = time_delta
              /\ subtract_relative_time(dt1, [dt2 EXCEPT !.ord = d, !.tz = z]) = time_delta

\* 06:00 minus 18:00 on another date and in another timezone: +12 hours
C11_Witness ==
    /\ pc = "subtracted"
    /\ dt1.ord # dt2.ord
    /\ dt1.tz # dt2.tz
    /\ dt1.sec - dt2.sec = -HalfDay
    /\ time_delta = HalfDay

-----------------------------------------------------------------------------
(* SleepStat subtraction *)

\* C13: for every optional field the delta holds self.field - other.field
\* whenever both operands are not None, a value of 0 included, and is None
\* only when at least one operand is None.
C13_FieldWise ==
    pc = "subtracted" =>
        \A f \in FieldNames(OptionalFields) :
            /\ (self_stat[f] # None /\ other_stat[f] # None) =>
                  stat_delta[f] = Some(self_stat[f].val - other_stat[f].val)
            /\ stat_delta[f] = None =>
                  (self_stat[f] = None \/ other_stat[f] = None)

=============================================================================
